---- MODULE Spec2Model ----
(***************************************************************************)
(* Session-scoped routing state machine of the universal dispatcher        *)
(* (src/dispatcher.py) together with its SQLite storage helpers            *)
(* (src/sql_storage.py).                                                   *)
(*                                                                         *)
(* Texts (user messages, model replies) are sequences of chunks.  A chunk  *)
(* is a piece of text that the regular expressions and substring tests of  *)
(* the dispatcher either match as a whole or not at all; the completion    *)
(* markers are split in two halves so that str.replace() can be followed   *)
(* on texts in which a marker is wrapped around another one.               *)
(*                                                                         *)
(* The service runs on one asyncio event loop: a handler runs without      *)
(* interruption between two awaits of an upstream call, so every action    *)
(* below is the code between two such suspension points.                   *)
(***************************************************************************)
EXTENDS Integers, Sequences, FiniteSets, TLC

VARIABLES
    session_state,  \* session id -> session dict (src/dispatcher.py:144)
    lists,          \* heap of Python list objects holding histories
    users,          \* table users: username -> password hash
    messages,       \* table messages: rows in id order
    reqs,           \* in-flight /chat coroutines
    clients,        \* the session ids the clients use
    overlap,        \* clients send a request while another one is in flight
    served,         \* /chat and /login requests accepted so far
    last,           \* the event of the last step (observation only)
    epoch,          \* the overlapping /chat requests under way (observation only)
    adapter,        \* the /chat turn of the tool-call adapter (src/backend/dispatcher.py)
    detection,      \* a call of detect_module followed on its own
    free            \* session id -> messages the general handler answered
                    \* while the session was not registered

vars == <<session_state, lists, users, messages, reqs, clients, overlap,
          served, last, epoch, adapter, detection, free>>

----------------------------------------------------------------------------
(* Bounds of the model *)

MaxRequests == 3

(* Program constants *)

HISTORY_CAP == 40
REG_THRESHOLD == 2
PSYCH_THRESHOLD == 20   \* 0.2, probabilities are counted in hundredths

\* Configuration: the remote psychology service is configured
PSYCH_CHAT_URL == TRUE

SessionIds == {"s1", "s2"}
Usernames == {"u1", "u2"}
Passwords == {"p1", "p2"}
ReqIds == {1, 2}
ListIds == 1..(Cardinality(SessionIds) + Cardinality(ReqIds) + 1)

NoUser == ""
NoForced == ""
NoList == 0

----------------------------------------------------------------------------
(* Texts *)

WS == " "
HANDOFF == <<"[hand", "off]">>
LOGIN_COMPLETE == <<"[login_", "complete]">>
REGISTRATION_COMPLETE == <<"[registration_", "complete]">>
JSON_LABEL == "JSON:"

\* pat in s
Contains(s, pat) ==
    \E i \in 1..(Len(s) - Len(pat) + 1) : SubSeq(s, i, i + Len(pat) - 1) = pat

\* s.replace(pat, ""): the occurrences are found left to right in s itself
RECURSIVE Replace(_, _)
Replace(s, pat) ==
    IF Len(s) < Len(pat) THEN s
    ELSE IF SubSeq(s, 1, Len(pat)) = pat
         THEN Replace(SubSeq(s, Len(pat) + 1, Len(s)), pat)
         ELSE <<s[1]>> \o Replace(Tail(s), pat)

RECURSIVE LStrip(_)
LStrip(s) == IF s # <<>> /\ s[1] = WS THEN LStrip(Tail(s)) ELSE s

RECURSIVE RStrip(_)
RStrip(s) ==
    IF s # <<>> /\ s[Len(s)] = WS THEN RStrip(SubSeq(s, 1, Len(s) - 1)) ELSE s

\* s.strip()
Strip(s) == RStrip(LStrip(s))

\* JSON objects a reply can carry, as one chunk each
JsonChunks == {"{u1,p1}", "{u1,p2}", "{u2,p2}", "{u1}", "{bad"}

\* json.loads() of the chunk succeeds
JsonLoads(j) == j \in {"{u1,p1}", "{u1,p2}", "{u2,p2}", "{u1}"}

JsonUsername(j) ==
    CASE j \in {"{u1,p1}", "{u1,p2}", "{u1}"} -> "u1"
      [] j = "{u2,p2}" -> "u2"
      [] OTHER -> ""

JsonPassword(j) ==
    CASE j = "{u1,p1}" -> "p1"
      [] j \in {"{u1,p2}", "{u2,p2}"} -> "p2"
      [] OTHER -> ""

\* the chunk ends a JSON object ("}" is its last character)
ClosesBrace(c) == c \in {"{u1,p1}", "{u1,p2}", "{u2,p2}", "{u1}"}

\* the chunk opens a JSON object ("{" is its first character)
OpensBrace(c) == c \in JsonChunks

Indices(s, Test(_)) == {i \in 1..Len(s) : Test(s[i])}

Min(S) == CHOOSE x \in S : \A y \in S : x <= y
Max(S) == CHOOSE x \in S : \A y \in S : x >= y

\* re.sub(r"JSON\s*:.*?\}\s*", "", s, flags=re.S)
RECURSIVE RemoveJsonLabel(_)
RemoveJsonLabel(s) ==
    IF s = <<>> THEN s
    ELSE IF s[1] = JSON_LABEL /\ Indices(Tail(s), ClosesBrace) # {}
         THEN LET k == Min(Indices(Tail(s), ClosesBrace))
              IN RemoveJsonLabel(LStrip(SubSeq(Tail(s), k + 1, Len(s) - 1)))
         ELSE <<s[1]>> \o RemoveJsonLabel(Tail(s))

\* re.sub(r"\{.*?\}", "", s, flags=re.S)
RECURSIVE RemoveJson(_)
RemoveJson(s) ==
    IF s = <<>> THEN s
    ELSE IF OpensBrace(s[1]) /\ Indices(s, ClosesBrace) # {}
         THEN RemoveJson(SubSeq(s, Min(Indices(s, ClosesBrace)) + 1, Len(s)))
         ELSE <<s[1]>> \o RemoveJson(Tail(s))

\* a regular-expression match of a JSON object in a reply
NoMatch == [found |-> FALSE, loads |-> FALSE, obj |-> ""]
Match(s, i, j) ==
    [found |-> TRUE, loads |-> i = j /\ JsonLoads(s[i]), obj |-> s[i]]

\* the openers from which a closing brace can still be reached
Openers(s) ==
    {i \in Indices(s, OpensBrace) : \E j \in Indices(s, ClosesBrace) : j >= i}

\* re.search(r"\{.*?\}", s): leftmost opening brace, nearest closing brace
SearchJsonLazy(s) ==
    IF Openers(s) = {} THEN NoMatch
    ELSE LET i == Min(Openers(s))
         IN Match(s, i, Min({j \in Indices(s, ClosesBrace) : j >= i}))

\* re.search(r"\{.*\}", s): leftmost opening brace, last closing brace
SearchJsonGreedy(s) ==
    IF Openers(s) = {} THEN NoMatch
    ELSE Match(s, Min(Openers(s)), Max(Indices(s, ClosesBrace)))

\* the text left by the three clean-up statements of the sign-up and login flows
CleanReply(response, marker) ==
    Strip(Replace(RemoveJson(RemoveJsonLabel(response)), marker))

----------------------------------------------------------------------------
(* Intent detection *)

\* the alternatives of the three patterns (re.IGNORECASE: texts are lower case)
LOGIN_KEYWORDS == {"შესვლ", "login", "ავტორიზ", "signin"}
REGISTRATION_KEYWORDS == {"რეგისტ", "register", "signup", "sign up"}
PSYCH_KEYWORDS ==
    {"ფსიქ", "თერაპ", "პსიქ", "დეპრეს", "depress", "anxiety", "therapy",
     "psych", "მკურნალ", "მეთოდ", "visual", "cbt", "კოგნიტ"}

\* pattern.search(text): one of the chunks of text is a keyword of the pattern
Search(keywords, text) == \E i \in 1..Len(text) : text[i] \in keywords

\* In the reply to the classification prompt every digit and every dot is a
\* chunk of its own
Digits == {"0", "1", "2", "3", "4", "5", "6", "7", "8", "9"}

DigitValue(c) ==
    CASE c = "0" -> 0 [] c = "1" -> 1 [] c = "2" -> 2 [] c = "3" -> 3
      [] c = "4" -> 4 [] c = "5" -> 5 [] c = "6" -> 6 [] c = "7" -> 7
      [] c = "8" -> 8 [] c = "9" -> 9

\* float() of the match of r"0(?:\.\d+)?|1(?:\.0+)?" that starts at s[i], in
\* hundredths (further decimals are cut off)
ProbabilityOf(s, i) ==
    IF s[i] = "1" THEN 100
    ELSE IF i + 2 <= Len(s) /\ s[i + 1] = "." /\ s[i + 2] \in Digits
         THEN 10 * DigitValue(s[i + 2])
              + IF i + 3 <= Len(s) /\ s[i + 3] \in Digits
                THEN DigitValue(s[i + 3]) ELSE 0
         ELSE 0

\* classify_intent_via_llm, after the reply of the model has arrived:
\* re.search finds the leftmost "0" or "1" of the reply
classify_intent_via_llm(response) ==
    LET hits == {i \in 1..Len(response) : response[i] \in {"0", "1"}}
    IN IF hits = {} THEN 0 ELSE ProbabilityOf(response, Min(hits))

UserMessages(history) == {i \in 1..Len(history) : history[i].role = "user"}

\* mutant: registration is forced one message later
detect_module_late_threshold(session, history, user_text) ==
    IF Search(LOGIN_KEYWORDS, user_text) THEN "login"
    ELSE IF ~session.registered
            /\ Cardinality(UserMessages(history)) >= REG_THRESHOLD + 1
         THEN "registration"
    ELSE IF Search(REGISTRATION_KEYWORDS, user_text) THEN "registration"
    ELSE IF Search(PSYCH_KEYWORDS, user_text) THEN "psychology"
    ELSE "classify"

\* mutant: the registration threshold is tested before the login keyword
detect_module_threshold_first(session, history, user_text) ==
    IF ~session.registered
       /\ Cardinality(UserMessages(history)) >= REG_THRESHOLD
    THEN "registration"
    ELSE IF Search(LOGIN_KEYWORDS, user_text) THEN "login"
    ELSE IF Search(REGISTRATION_KEYWORDS, user_text) THEN "registration"
    ELSE IF Search(PSYCH_KEYWORDS, user_text) THEN "psychology"
    ELSE "classify"

\* mutant: the psychology keywords are tested before the registration keywords
detect_module_psych_first(session, history, user_text) ==
    IF Search(LOGIN_KEYWORDS, user_text) THEN "login"
    ELSE IF ~session.registered
            /\ Cardinality(UserMessages(history)) >= REG_THRESHOLD
         THEN "registration"
    ELSE IF Search(PSYCH_KEYWORDS, user_text) THEN "psychology"
    ELSE IF Search(REGISTRATION_KEYWORDS, user_text) THEN "registration"
    ELSE "classify"

\* detect_module up to the call of the classifier ("classify": the model is asked)
detect_module(session, history, user_text) ==
    IF Search(LOGIN_KEYWORDS, user_text) THEN "login"
    ELSE IF ~session.registered
            /\ Cardinality(UserMessages(history)) >= REG_THRESHOLD
         THEN "registration"
    ELSE IF Search(REGISTRATION_KEYWORDS, user_text) THEN "registration"
    ELSE IF Search(PSYCH_KEYWORDS, user_text) THEN "psychology"
    ELSE "classify"

\* mutant: the threshold itself does not count
detect_by_probability_strict(probability) ==
    IF probability > PSYCH_THRESHOLD THEN "psychology" ELSE "general"

\* the last line of detect_module
detect_by_probability(probability) ==
    IF probability >= PSYCH_THRESHOLD THEN "psychology" ELSE "general"

----------------------------------------------------------------------------
(* Storage (src/sql_storage.py) and password hashing *)

NoHash == [pw |-> "", salt |-> 0]

\* bcrypt.hashpw(password, bcrypt.gensalt()); the initial rows carry salt 0
hashpw(password) == [pw |-> password, salt |-> 1]
checkpw(password, hash) == hash.pw = password

upsert_user(tbl, username, password_hash) ==
    [tbl EXCEPT ![username] = password_hash]

get_user_hash(tbl, username) ==
    IF username \in DOMAIN tbl THEN tbl[username] ELSE NoHash

add_message(rows, username, role, content) ==
    Append(rows, <<username, role, content>>)

\* SELECT role, content FROM messages WHERE username=? ORDER BY id ASC
load_history(rows, username) ==
    LET mine == SelectSeq(rows, LAMBDA row : row[1] = username)
    IN [i \in 1..Len(mine) |-> <<mine[i][2], mine[i][3]>>]

Msg(role, content) == [role |-> role, content |-> content]

\* [{"role": r, "content": c} for (r, c) in loaded]
ToMessages(loaded) == [i \in 1..Len(loaded) |-> Msg(loaded[i][1], loaded[i][2])]

----------------------------------------------------------------------------
(* Session store and history lists *)

World == [ss |-> session_state, lists |-> lists, users |-> users,
          messages |-> messages]

\* the list objects a coroutine holds in its local variable history
Busy(rq) == {rq[q].hist : q \in ReqIds} \ {NoList}

Referenced(w, busy) == {w.ss[s].history : s \in DOMAIN w.ss} \cup busy

\* a new list object
Alloc(w, busy) == Min(ListIds \ Referenced(w, busy))

\* list objects nothing refers to are gone
Collect(w, busy) ==
    [w EXCEPT !.lists = [i \in ListIds |->
                            IF i \in Referenced(w, busy) THEN @[i] ELSE <<>>]]

\* session["history"] = <a new list holding content>
SetHistory(w, sid, content, busy) ==
    LET id == Alloc(w, busy)
    IN [w EXCEPT !.lists[id] = content, !.ss[sid].history = id]

NewSession(list) ==
    [current_module |-> "general", history |-> list, registered |-> FALSE,
     user |-> NoUser]

\* mutant: the default value is one object, and its list is shared by the
\* sessions created from it
SetDefault_shared(w, sid, busy) ==
    IF sid \in DOMAIN w.ss THEN w
    ELSE IF DOMAIN w.ss # {}
    THEN [w EXCEPT !.ss = (sid :> NewSession(
                      w.ss[CHOOSE s \in DOMAIN w.ss : TRUE].history)) @@ w.ss]
    ELSE LET id == Alloc(w, busy)
         IN [w EXCEPT !.lists[id] = <<>>,
                      !.ss = (sid :> NewSession(id)) @@ w.ss]

\* session_state.setdefault(session_id, {"current_module": "general", "history": []})
SetDefault(w, sid, busy) ==
    IF sid \in DOMAIN w.ss THEN w
    ELSE LET id == Alloc(w, busy)
         IN [w EXCEPT !.lists[id] = <<>>,
                      !.ss = (sid :> NewSession(id)) @@ w.ss]

History(w, sid) == w.lists[w.ss[sid].history]

\* history[-n:]
LastN(history, n) ==
    IF Len(history) <= n THEN history
    ELSE SubSeq(history, Len(history) - n + 1, Len(history))

\* history.append(user message); history.append(assistant message)
AppendTurn(w, h, user_text, response) ==
    [w EXCEPT !.lists[h] =
        Append(Append(@, Msg("user", user_text)), Msg("assistant", response))]

\* if len(history) > 40: session["history"] = history[-40:]
Truncate(w, sid, h, busy) ==
    IF Len(w.lists[h]) > HISTORY_CAP
    THEN SetHistory(w, sid, LastN(w.lists[h], HISTORY_CAP), busy)
    ELSE w

----------------------------------------------------------------------------
(* Module handlers, from the reply of the upstream call to the return *)

handle_general(w, req, response, busy) ==
    LET w1 == AppendTurn(w, req.hist, req.text, response)
    IN [w |-> Truncate(w1, req.sid, req.hist, busy), text |-> response]

\* the remote psychology service answered with data = {text, handoff}
handle_psychology_remote(w, req, data) ==
    IF data.handoff \/ Contains(data.text, HANDOFF)
    THEN [w |-> [w EXCEPT !.ss[req.sid].current_module = "general"],
          text |-> Strip(Replace(data.text, HANDOFF))]
    ELSE [w |-> w, text |-> data.text]

\* the local model answered
handle_psychology(w, req, response, busy) ==
    LET w1 == AppendTurn(w, req.hist, req.text, response)
        handoff == Contains(response, HANDOFF)
        w2 == IF handoff
              THEN [w1 EXCEPT !.ss[req.sid].current_module = "general"]
              ELSE w1
    IN [w |-> Truncate(w2, req.sid, req.hist, busy),
        text |-> IF handoff THEN Strip(Replace(response, HANDOFF)) ELSE response]

RECURSIVE Transcript(_)
\* "\n".join(f"{prefix} {msg['content']}" for msg in history)
Transcript(history) ==
    IF history = <<>> THEN <<>>
    ELSE <<IF history[1].role = "user" THEN "you:" ELSE "bot:">>
         \o history[1].content \o Transcript(Tail(history))

LOGGED_IN == "logged in"
LOGGED_IN_WITH_HISTORY == "logged in, your conversation:"
BAD_CREDENTIALS == "wrong name or password"

handle_login(w, req, response, busy) ==
    LET sid == req.sid
        w1 == AppendTurn(w, req.hist, req.text, response)
        m == SearchJsonLazy(response)
        username == JsonUsername(m.obj)
        password == JsonPassword(m.obj)
        pw_hash == get_user_hash(w1.users, username)
        loaded == load_history(w1.messages, username)
        w2 == IF loaded # <<>>
              THEN SetHistory(w1, sid, ToMessages(loaded), busy)
              ELSE w1
        w3 == [w2 EXCEPT !.ss[sid].registered = TRUE, !.ss[sid].user = username]
    IN IF ~Contains(response, LOGIN_COMPLETE)
       THEN [w |-> w1, text |-> response]
       ELSE IF m.found /\ m.loads /\ username # "" /\ password # ""
       THEN IF pw_hash # NoHash /\ checkpw(password, pw_hash)
            THEN [w |-> w3,
                  text |-> IF History(w3, sid) # <<>>
                           THEN <<LOGGED_IN_WITH_HISTORY>>
                                \o Transcript(History(w3, sid))
                           ELSE <<LOGGED_IN>>]
            ELSE [w |-> w1, text |-> <<BAD_CREDENTIALS>>]
       ELSE [w |-> w1, text |-> CleanReply(response, LOGIN_COMPLETE)]

\* mutant: the session is marked registered but the user is not attached
handle_registration_no_user(w, req, response, busy) ==
    LET sid == req.sid
        w1 == AppendTurn(w, req.hist, req.text, response)
        m == SearchJsonGreedy(response)
        username == JsonUsername(m.obj)
        password == JsonPassword(m.obj)
        w2 == [w1 EXCEPT !.users = upsert_user(@, username, hashpw(password))]
        loaded == load_history(w2.messages, username)
        w3 == IF loaded # <<>>
              THEN SetHistory(w2, sid, ToMessages(loaded), busy)
              ELSE w2
        w4 == [w3 EXCEPT !.ss[sid].registered = TRUE]
        w5 == IF m.found /\ m.loads /\ username # "" /\ password # ""
              THEN w4 ELSE w1
        w6 == [w5 EXCEPT !.ss[sid].current_module = "general"]
    IN IF Contains(response, REGISTRATION_COMPLETE)
       THEN [w |-> Truncate(w6, sid, req.hist, busy),
             text |-> CleanReply(response, REGISTRATION_COMPLETE)]
       ELSE [w |-> Truncate(w1, sid, req.hist, busy), text |-> response]

handle_registration(w, req, response, busy) ==
    LET sid == req.sid
        w1 == AppendTurn(w, req.hist, req.text, response)
        m == SearchJsonGreedy(response)
        username == JsonUsername(m.obj)
        password == JsonPassword(m.obj)
        w2 == [w1 EXCEPT !.users = upsert_user(@, username, hashpw(password))]
        loaded == load_history(w2.messages, username)
        w3 == IF loaded # <<>>
              THEN SetHistory(w2, sid, ToMessages(loaded), busy)
              ELSE w2
        w4 == [w3 EXCEPT !.ss[sid].registered = TRUE, !.ss[sid].user = username]
        w5 == IF m.found /\ m.loads /\ username # "" /\ password # ""
              THEN w4 ELSE w1
        w6 == [w5 EXCEPT !.ss[sid].current_module = "general"]
    IN IF Contains(response, REGISTRATION_COMPLETE)
       THEN [w |-> Truncate(w6, sid, req.hist, busy),
             text |-> CleanReply(response, REGISTRATION_COMPLETE)]
       ELSE [w |-> Truncate(w1, sid, req.hist, busy), text |-> response]

\* mutant: the psychology branch is missing from the chain
HandlerOf_no_psychology(module) ==
    IF module \in {"registration", "login"} THEN module ELSE "general"

\* the handler the if/elif chain of chat picks for a module name
HandlerOf(module) ==
    IF module \in {"psychology", "registration", "login"} THEN module
    ELSE "general"

\* the handler's part after its upstream call
RunHandler(w, req, response, busy) ==
    CASE HandlerOf(req.module) = "psychology" ->
            handle_psychology(w, req, response, busy)
      [] HandlerOf(req.module) = "registration" ->
            handle_registration(w, req, response, busy)
      [] HandlerOf(req.module) = "login" ->
            handle_login(w, req, response, busy)
      [] OTHER -> handle_general(w, req, response, busy)

\* chat, after the handler: the reply is persisted for a logged-in session
PersistReply(w, sid, assistant_text) ==
    IF w.ss[sid].user # NoUser /\ assistant_text # <<>>
    THEN [w EXCEPT !.messages =
             add_message(@, w.ss[sid].user, "assistant", assistant_text)]
    ELSE w

\* chat, before the module is chosen: the message is persisted for a logged-in session
PersistUserText(w, sid, user_text) ==
    IF w.ss[sid].user # NoUser
    THEN [w EXCEPT !.messages =
             add_message(@, w.ss[sid].user, "user", user_text)]
    ELSE w

----------------------------------------------------------------------------
(* Inputs: what clients send and what the upstream services answer *)

UserTexts == {<<"hi">>, <<"login">>, <<"register">>, <<"therapy">>}

\* the bodies of the /chat requests: text and the optional module
ChatInputs ==
    {[text |-> t, forced |-> NoForced] : t \in UserTexts}
    \cup {[text |-> <<"login">>, forced |-> "psychology"],
          [text |-> <<"hi">>, forced |-> "legal"],
          [text |-> <<>>, forced |-> NoForced]}

R_OK == <<"ok">>
R_HANDOFF == <<"bye", WS>> \o HANDOFF
R_NESTED == <<"[hand">> \o HANDOFF \o <<"off]">>
R_REGISTERED_NEW == <<"done", JSON_LABEL, "{u2,p2}">> \o REGISTRATION_COMPLETE
R_REGISTERED_TAKEN == <<"done", JSON_LABEL, "{u1,p2}">> \o REGISTRATION_COMPLETE
R_LOGIN_GOOD == <<JSON_LABEL, "{u1,p1}">> \o LOGIN_COMPLETE
R_LOGIN_BAD == <<JSON_LABEL, "{u1,p2}">> \o LOGIN_COMPLETE

\* the replies of the chat-completion service to the prompt of a handler
UpstreamReplies(handler) ==
    CASE handler = "psychology" -> {R_OK, R_HANDOFF, R_NESTED}
      [] handler = "registration" -> {R_OK, R_REGISTERED_NEW, R_REGISTERED_TAKEN}
      [] handler = "login" -> {R_OK, R_LOGIN_GOOD, R_LOGIN_BAD}
      [] OTHER -> {R_OK, R_HANDOFF}

\* what a call of the chat-completion service meets: the text of the model,
\* or an exception e with the text str(e)
Answer(text) == [raised |-> FALSE, kind |-> "ok", text |-> text]
Failure(kind, text) == [raised |-> TRUE, kind |-> kind, text |-> text]

RATE_LIMITED ==
    Failure("rate_limit",
            <<"Error code: ", "4", "2", "9", " - Rate limit reached: Limit ",
              "3", ", Used ", "3", ", Requested ", "1">>)
SERVER_ERROR == Failure("status", <<"Error code: ", "5", "0", "0">>)
CONNECTION_ERROR == Failure("network", <<"Connection error.">>)

\* the answers to the classification prompt
ClassifierOutcomes ==
    {Answer(<<"0", ".", "1">>), Answer(<<"0", ".", "2">>),
     Answer(<<"0", ".", "1", "9">>), Answer(<<"maybe">>),
     RATE_LIMITED, SERVER_ERROR, CONNECTION_ERROR}

ERROR_PREFIX == "ხარვეზი მოხდა: "

\* call_openai_chat / call_moonshot_chat: the text the wrapper returns, after
\* one call of the service
call_openai_chat(outcome) ==
    IF outcome.raised THEN <<ERROR_PREFIX>> \o outcome.text ELSE outcome.text

\* call_moonshot_chat: the same, and a response without choices is returned
\* as its JSON text
MALFORMED == [raised |-> FALSE, kind |-> "malformed", text |-> <<"{}">>]
TOO_MANY_REQUESTS ==
    Failure("rate_limit",
            <<"Client error '", "4", "2", "9", " Too Many Requests' for url '",
              "https://api.moonshot.cn/v", "1", "/chat/completions'">>)

call_moonshot_chat(outcome) ==
    IF outcome.raised THEN <<ERROR_PREFIX>> \o outcome.text ELSE outcome.text

\* the texts classify_intent_via_llm gets for the classification prompt
ClassifierReplies == {call_openai_chat(outcome) : outcome \in ClassifierOutcomes}

\* the answers of the remote psychology service; failed: the request raised
RemoteReplies ==
    {[failed |-> FALSE, text |-> R_OK, handoff |-> FALSE],
     [failed |-> FALSE, text |-> R_OK, handoff |-> TRUE],
     [failed |-> FALSE, text |-> R_HANDOFF, handoff |-> FALSE],
     [failed |-> TRUE, text |-> <<>>, handoff |-> FALSE]}

\* the bodies of the /login requests
LoginInputs ==
    {[username |-> "u1", password |-> "p1"],
     [username |-> "u1", password |-> "p2"],
     [username |-> "u2", password |-> "p2"]}

\* the lengths of the message log found in the database at start-up
StoredLogLengths == {0, 39, 41}

\* the length of the log found at start-up by the service with two clients
ShortLog == 2

\* a log of n rows written for username by earlier runs of the service
StoredLog(username, n) ==
    [i \in 1..n |-> <<username, IF i % 2 = 1 THEN "user" ELSE "assistant",
                      <<"m", ToString(i)>>>>]

----------------------------------------------------------------------------
(* State machine *)

IdleReq ==
    [pc |-> "idle", sid |-> "", text |-> <<>>, forced |-> NoForced,
     seen |-> "", module |-> "", hist |-> NoList,
     detected |-> FALSE, classified |-> FALSE]

Idle == \A q \in ReqIds : reqs[q].pc = "idle"

\* no call of detect_module under way; backend: the service the keys select
NoDetection(backend) ==
    [pc |-> "idle", backend |-> backend, registered |-> FALSE, history |-> <<>>,
     user_text |-> <<>>, asked |-> FALSE, attempts |-> 0,
     outcome |-> Answer(<<>>), probability |-> 0, result |-> ""]

\* the tool-call adapter before its first request
IdleTurn ==
    [pc |-> "idle", turn |-> 0, api_key |-> TRUE, assistant |-> TRUE,
     user_msg |-> <<>>, calls |-> <<>>,
     first |-> [content |-> <<>>, tool_calls |-> <<>>], tcalls |-> <<>>,
     handled |-> <<>>, polls |-> 0, run |-> "none", reply |-> <<>>]

\* no session has had a message answered
NoFreeTurns == [sid \in SessionIds |-> 0]

EmptyWorld ==
    [ss |-> [s \in {} |-> NewSession(NoList)],
     lists |-> [i \in ListIds |-> <<>>],
     users |-> [u \in Usernames |-> NoHash],
     messages |-> <<>>]

\* no /chat request under way
NoEpoch == [void |-> FALSE, w |-> EmptyWorld, turns |-> <<>>]

\* requests under way that are not two overlapping /chat requests
VoidEpoch == [void |-> TRUE, w |-> EmptyWorld, turns |-> <<>>]

Start(ids, concurrent) ==
    /\ session_state = [s \in {} |-> NewSession(NoList)]
    /\ lists = [i \in ListIds |-> <<>>]
    /\ users = [u \in Usernames |-> IF u = "u1" THEN [pw |-> "p1", salt |-> 0]
                                    ELSE NoHash]
    /\ \E n \in StoredLogLengths : messages = StoredLog("u1", n)
    /\ reqs = [q \in ReqIds |-> IdleReq]
    /\ clients = ids
    /\ overlap = concurrent
    /\ served = 0
    /\ last = [op |-> "start"]
    /\ epoch = NoEpoch
    /\ adapter = IdleTurn
    /\ detection = NoDetection("openai")
    /\ free = NoFreeTurns

\* one client, one request at a time
Init == Start({"s1"}, FALSE)

\* one client whose requests overlap
InitOverlap == Start({"s1"}, TRUE)

\* two clients, one request at a time, and a short log in the database
InitTwo ==
    /\ session_state = [s \in {} |-> NewSession(NoList)]
    /\ lists = [i \in ListIds |-> <<>>]
    /\ users = [u \in Usernames |-> IF u = "u1" THEN [pw |-> "p1", salt |-> 0]
                                    ELSE NoHash]
    /\ messages = StoredLog("u1", ShortLog)
    /\ reqs = [q \in ReqIds |-> IdleReq]
    /\ clients = {"s1", "s2"}
    /\ overlap = FALSE
    /\ served = 0
    /\ last = [op |-> "start"]
    /\ epoch = NoEpoch
    /\ adapter = IdleTurn
    /\ detection = NoDetection("openai")
    /\ free = NoFreeTurns

\* the world before the first of the /chat requests that overlap, and what
\* each of them was sent; kept until the next request after they have ended
Track(rq, ev) ==
    LET began == {q \in ReqIds : reqs[q].pc = "idle" /\ rq[q].pc # "idle"}
        turn == LET q == CHOOSE q \in began : TRUE
                IN [sid |-> rq[q].sid, text |-> rq[q].text,
                    forced |-> rq[q].forced]
    IN IF ~overlap THEN NoEpoch
       ELSE IF ev.op = "login" THEN IF Idle THEN NoEpoch ELSE VoidEpoch
       ELSE IF began # {}
       THEN IF Idle THEN [void |-> FALSE, w |-> World, turns |-> <<turn>>]
            ELSE IF epoch.void \/ Len(epoch.turns) >= 2 THEN VoidEpoch
            ELSE [epoch EXCEPT !.turns = Append(@, turn)]
       ELSE IF (\A q \in ReqIds : rq[q].pc = "idle")
               /\ (epoch.void \/ Len(epoch.turns) < 2)
       THEN NoEpoch
       ELSE epoch

\* the event is a reply of the general handler to a session that is not
\* registered
FreeTurn(ev) ==
    /\ ev.op = "reply"
    /\ ev.handler = "general"
    /\ ~session_state[ev.sid].registered

\* the step leaves the world w and the coroutines rq, and is observed as ev
Commit(w, rq, ev) ==
    LET c == Collect(w, Busy(rq))
    IN /\ session_state' = c.ss
       /\ lists' = c.lists
       /\ users' = c.users
       /\ messages' = c.messages
       /\ reqs' = rq
       /\ last' = ev
       /\ epoch' = Track(rq, ev)
       /\ free' = IF FreeTurn(ev) THEN [free EXCEPT ![ev.sid] = @ + 1]
                  ELSE free
       /\ UNCHANGED <<clients, overlap, adapter, detection>>

\* mutant: detect_module is asked in every mode
needs_detection_in_every_mode(forced_module, current_module) ==
    forced_module = NoForced

\* chat asks detect_module only without a forced module and in general mode
needs_detection(forced_module, current_module) ==
    forced_module = NoForced /\ current_module = "general"

\* chat: session["current_module"] = module, and the handler up to its upstream call
Dispatch(w, req, module) ==
    [w |-> [w EXCEPT !.ss[req.sid].current_module = module],
     req |-> [req EXCEPT !.module = module,
                         !.hist = w.ss[req.sid].history,
                         !.pc = IF module = "psychology" /\ PSYCH_CHAT_URL
                                THEN "remote" ELSE "upstream"]]

DispatchEvent(req) ==
    [op |-> "dispatch", sid |-> req.sid, text |-> req.text,
     forced |-> req.forced, seen |-> req.seen, module |-> req.module,
     handler |-> HandlerOf(req.module), detected |-> req.detected,
     classified |-> req.classified]

\* mutant: the session is fetched or created before the text is looked at
bad_request_after_setdefault(w, sid, busy) == SetDefault(w, sid, busy)

\* chat: the world a request without text leaves (status 400)
bad_request(w, sid, busy) == w

\* POST /chat up to the first upstream call
ChatBegin(r, sid, in) ==
    /\ served < MaxRequests
    /\ sid \in clients
    /\ reqs[r].pc = "idle"
    /\ r = Min({q \in ReqIds : reqs[q].pc = "idle"})
    /\ overlap \/ Idle
    /\ LET w1 == SetDefault(World, sid, Busy(reqs))
           w2 == PersistUserText(w1, sid, in.text)
           session == w2.ss[sid]
           req == [IdleReq EXCEPT !.sid = sid, !.text = in.text,
                                  !.forced = in.forced]
           ask == needs_detection(in.forced, session.current_module)
           found == detect_module(session, History(w2, sid), in.text)
           req1 == [req EXCEPT !.seen = IF in.forced = NoForced
                                        THEN session.current_module ELSE "",
                               !.detected = ask,
                               !.classified = ask /\ found = "classify"]
           module == IF in.forced # NoForced THEN in.forced
                     ELSE IF ask THEN found ELSE session.current_module
           d == Dispatch(w2, req1, module)
       IN IF in.text = <<>>
          THEN Commit(bad_request(World, sid, Busy(reqs)), reqs,
                      [op |-> "rejected", status |-> 400, sid |-> sid,
                       text |-> in.text, forced |-> in.forced])
          ELSE IF req1.classified
          THEN Commit(w2, [reqs EXCEPT ![r] = [req1 EXCEPT !.pc = "classify"]],
                      [op |-> "classify", sid |-> sid, text |-> in.text,
                       forced |-> in.forced, seen |-> req1.seen])
          ELSE Commit(d.w, [reqs EXCEPT ![r] = d.req], DispatchEvent(d.req))
    /\ served' = served + 1

\* the classifier's reply arrives: detect_module returns and chat dispatches
ClassifierReply(r, response) ==
    /\ reqs[r].pc = "classify"
    /\ LET probability == classify_intent_via_llm(response)
           module == detect_by_probability(probability)
           d == Dispatch(World, reqs[r], module)
       IN Commit(d.w, [reqs EXCEPT ![r] = d.req],
                 DispatchEvent(d.req) @@ [probability |-> probability])
    /\ UNCHANGED served

ReplyEvent(req, via, response, flag, text) ==
    [op |-> "reply", sid |-> req.sid, user_text |-> req.text,
     forced |-> req.forced, seen |-> req.seen, module |-> req.module,
     handler |-> HandlerOf(req.module), detected |-> req.detected,
     classified |-> req.classified, via |-> via, response |-> response,
     flag |-> flag, text |-> text]

\* the remote psychology service answers, or the call to it fails
RemoteReply(r, data) ==
    /\ reqs[r].pc = "remote"
    /\ IF data.failed
       THEN Commit(World, [reqs EXCEPT ![r].pc = "upstream"],
                   [op |-> "remote_failed", sid |-> reqs[r].sid])
       ELSE LET res == handle_psychology_remote(World, reqs[r], data)
            IN Commit(PersistReply(res.w, reqs[r].sid, res.text),
                      [reqs EXCEPT ![r] = IdleReq],
                      ReplyEvent(reqs[r], "remote", data.text, data.handoff,
                                 res.text))
    /\ UNCHANGED served

\* the chat-completion service answers the handler, which finishes, and chat returns
HandlerReply(r, response) ==
    /\ reqs[r].pc = "upstream"
    /\ response \in UpstreamReplies(HandlerOf(reqs[r].module))
    /\ LET res == RunHandler(World, reqs[r], response, Busy(reqs))
       IN Commit(PersistReply(res.w, reqs[r].sid, res.text),
                 [reqs EXCEPT ![r] = IdleReq],
                 ReplyEvent(reqs[r], "local", response, FALSE, res.text))
    /\ UNCHANGED served

\* mutant: an empty log leaves the history as it is, as in the chat flows
login_keeps_history(w, sid, username, password, busy) ==
    LET pw_hash == get_user_hash(w.users, username)
        w1 == SetDefault(w, sid, busy)
        loaded == load_history(w1.messages, username)
        w2 == IF loaded # <<>>
              THEN SetHistory(w1, sid, ToMessages(loaded), busy)
              ELSE w1
    IN IF pw_hash = NoHash \/ ~checkpw(password, pw_hash)
       THEN [w |-> w, ok |-> FALSE]
       ELSE [w |-> [w2 EXCEPT !.ss[sid].registered = TRUE,
                              !.ss[sid].user = username],
             ok |-> TRUE]

\* POST /login
login(w, sid, username, password, busy) ==
    LET pw_hash == get_user_hash(w.users, username)
        w1 == SetDefault(w, sid, busy)
        loaded == load_history(w1.messages, username)
        w2 == SetHistory(w1, sid, ToMessages(loaded), busy)
    IN IF pw_hash = NoHash \/ ~checkpw(password, pw_hash)
       THEN [w |-> w, ok |-> FALSE]
       ELSE [w |-> [w2 EXCEPT !.ss[sid].registered = TRUE,
                              !.ss[sid].user = username],
             ok |-> TRUE]

Login(sid, username, password) ==
    /\ served < MaxRequests
    /\ sid \in clients
    /\ overlap \/ Idle
    /\ LET res == login(World, sid, username, password, Busy(reqs))
       IN Commit(res.w, reqs,
                 [op |-> "login", sid |-> sid, username |-> username,
                  password |-> password, ok |-> res.ok])
    /\ served' = served + 1

Next ==
    \/ \E r \in ReqIds, sid \in SessionIds, in \in ChatInputs :
          ChatBegin(r, sid, in)
    \/ \E r \in ReqIds, response \in ClassifierReplies :
          ClassifierReply(r, response)
    \/ \E r \in ReqIds, data \in RemoteReplies : RemoteReply(r, data)
    \/ \E r \in ReqIds, response \in UNION {UpstreamReplies(h) :
            h \in {"general", "psychology", "registration", "login"}} :
          HandlerReply(r, response)
    \/ \E sid \in SessionIds, in \in LoginInputs :
          Login(sid, in.username, in.password)

\* the worlds the handler of a dispatched request can leave when the
\* chat-completion service answers and chat returns
Local(d) ==
    {LET res == RunHandler(d.w, d.req, response, {d.req.hist})
     IN PersistReply(res.w, d.req.sid, res.text) :
        response \in UpstreamReplies(HandlerOf(d.req.module))}

\* the same when the remote psychology service answers
Remote(d) ==
    {LET res == handle_psychology_remote(d.w, d.req, data)
     IN PersistReply(res.w, d.req.sid, res.text) :
        data \in {x \in RemoteReplies : ~x.failed}}

Finish(d) ==
    IF d.req.pc = "remote"
    THEN Remote(d) \cup IF \E x \in RemoteReplies : x.failed
                        THEN Local(d) ELSE {}
    ELSE Local(d)

\* the modules chat can choose for the request
Choices(w, sid, in) ==
    LET session == w.ss[sid]
        found == detect_module(session, History(w, sid), in.text)
    IN IF in.forced # NoForced THEN {in.forced}
       ELSE IF ~needs_detection(in.forced, session.current_module)
       THEN {session.current_module}
       ELSE IF found = "classify"
       THEN {detect_by_probability(classify_intent_via_llm(response)) :
                response \in ClassifierReplies}
       ELSE {found}

\* POST /chat from the request to the response with nothing in between:
\* the worlds the turn can leave, one for each answer of the upstream services
chat(w, sid, in) ==
    LET w2 == PersistUserText(SetDefault(w, sid, {}), sid, in.text)
        fresh == [IdleReq EXCEPT !.sid = sid, !.text = in.text,
                                 !.forced = in.forced]
    IN UNION {Finish(Dispatch(w2, fresh, m)) : m \in Choices(w2, sid, in)}

Spec == Init /\ [][Next]_vars

SpecOverlap == InitOverlap /\ [][Next]_vars

SpecTwo == InitTwo /\ [][Next]_vars

\* the service when no request names a module
NextFree ==
    \/ \E r \in ReqIds, sid \in SessionIds,
          in \in {i \in ChatInputs : i.forced = NoForced} :
          ChatBegin(r, sid, in)
    \/ \E r \in ReqIds, response \in ClassifierReplies :
          ClassifierReply(r, response)
    \/ \E r \in ReqIds, data \in RemoteReplies : RemoteReply(r, data)
    \/ \E r \in ReqIds, response \in UNION {UpstreamReplies(h) :
            h \in {"general", "psychology", "registration", "login"}} :
          HandlerReply(r, response)
    \/ \E sid \in SessionIds, in \in LoginInputs :
          Login(sid, in.username, in.password)

\* one client whose requests overlap and name no module
SpecFree == InitOverlap /\ [][NextFree]_vars

----------------------------------------------------------------------------
(* detect_module on its own: the session and the text are drawn, the rules  *)
(* are applied and, when no rule fires, the classifier is asked             *)

MaxPrior == 3

PANIC_TEXT == <<"მაქვს", WS, "პანიკის", WS, "შეტევა">>

\* the texts of the messages detect_module is given
DetectTexts ==
    UserTexts \cup {PANIC_TEXT, <<"login", WS, "register">>,
                    <<"register", WS, "therapy">>, <<"cbt">>}

RECURSIVE Turns(_)
\* a history of n earlier turns
Turns(n) ==
    IF n = 0 THEN <<>>
    ELSE Turns(n - 1) \o <<Msg("user", <<"hi">>), Msg("assistant", R_OK)>>

\* the services the API keys select for the classification prompt
Backends == {"openai", "moonshot", "none"}

BackendOutcomes(backend) ==
    CASE backend = "openai" -> ClassifierOutcomes
      [] backend = "moonshot" ->
            ClassifierOutcomes \cup {MALFORMED, TOO_MANY_REQUESTS}
      [] OTHER -> {}

\* the value of classify_intent_via_llm and the last line of detect_module
Classified(d, outcome, response) ==
    [d EXCEPT !.pc = "done", !.outcome = outcome,
              !.probability = classify_intent_via_llm(response),
              !.result = detect_by_probability(classify_intent_via_llm(response))]

\* detect_module is called; it returns, or asks the classifier
DetectBegin(registered, prior, user_text) ==
    /\ detection.pc \in {"idle", "done"}
    /\ LET history == Turns(prior)
           d == [NoDetection(detection.backend) EXCEPT
                    !.registered = registered, !.history = history,
                    !.user_text = user_text]
           found == detect_module([registered |-> registered], history,
                                  user_text)
       IN detection' =
            IF found # "classify" THEN [d EXCEPT !.pc = "done", !.result = found]
            ELSE IF d.backend = "none"
            THEN [Classified(d, d.outcome, <<>>) EXCEPT !.asked = TRUE]
            ELSE [d EXCEPT !.pc = "upstream", !.asked = TRUE, !.attempts = 1]
    /\ UNCHANGED <<session_state, lists, users, messages, reqs, clients,
                   overlap, served, last, epoch, adapter, free>>

\* the call of the service ends; the wrapper, the classifier and detect_module return
DetectReturns(outcome) ==
    /\ detection.pc = "upstream"
    /\ outcome \in BackendOutcomes(detection.backend)
    /\ detection' =
         Classified(detection, outcome,
                    IF detection.backend = "openai"
                    THEN call_openai_chat(outcome)
                    ELSE call_moonshot_chat(outcome))
    /\ UNCHANGED <<session_state, lists, users, messages, reqs, clients,
                   overlap, served, last, epoch, adapter, free>>

InitDetect ==
    /\ session_state = EmptyWorld.ss
    /\ lists = EmptyWorld.lists
    /\ users = EmptyWorld.users
    /\ messages = EmptyWorld.messages
    /\ reqs = [q \in ReqIds |-> IdleReq]
    /\ clients = {}
    /\ overlap = FALSE
    /\ served = 0
    /\ last = [op |-> "start"]
    /\ epoch = NoEpoch
    /\ adapter = IdleTurn
    /\ \E backend \in Backends : detection = NoDetection(backend)
    /\ free = NoFreeTurns

NextDetect ==
    \/ \E registered \in BOOLEAN, prior \in 0..MaxPrior,
          user_text \in DetectTexts :
          DetectBegin(registered, prior, user_text)
    \/ \E outcome \in ClassifierOutcomes \cup {MALFORMED, TOO_MANY_REQUESTS} :
          DetectReturns(outcome)

SpecDetect == InitDetect /\ [][NextDetect]_vars

----------------------------------------------------------------------------
(* Tool-call adapter (src/backend/dispatcher.py): one /chat turn is a first  *)
(* call to the provider with the tools, the module the provider asked for,  *)
(* and a second call that turns the module's result into the reply          *)

MaxAdapterTurns == 2
MaxPolls == 2

NoText == <<"<no text>">>
NO_KEY == <<"MOONSHOT_API_KEY is not configured">>
NOT_CONFIGURED == <<"OpenAI client or Assistant ID not configured">>

\* body.get("message", ""): what the clients of the adapter send
AdapterMessages == {<<>>, <<"hi">>, <<WS, "therapy", WS>>}

\* call.function.arguments, the JSON text of a function call: loads tells
\* whether json.loads accepts it, payload.text = NoText that it has no "text"
ToolArguments ==
    {[loads |-> TRUE, module |-> m, payload |-> [text |-> t]] :
        m \in {"psychology", "legal"}, t \in {NoText, <<"panic">>}}
    \cup {[loads |-> FALSE, module |-> "", payload |-> [text |-> NoText]]}

ToolCall(id, arguments) ==
    [id |-> id, name |-> "route_to_module", arguments |-> arguments]

\* first.choices[0].message: the content and the function calls of the provider
FirstResponses ==
    {[content |-> <<"hello">>, tool_calls |-> <<>>]}
    \cup {[content |-> <<>>, tool_calls |-> <<ToolCall("c1", a)>>] :
             a \in ToolArguments}
    \cup {[content |-> <<>>,
           tool_calls |-> <<ToolCall("c1", a), ToolCall("c2", a)>>] :
             a \in {x \in ToolArguments : x.module = "legal"}}

\* final.choices[0].message.content
SecondResponses == {<<"final">>}

\* what the poll of the assistant run meets: a status, or an exception
RunOutcomes ==
    {"completed", "in_progress", "failed", "cancelled", "expired", "raise"}

\* the statuses in which a run ends without completing
TERMINAL == {"failed", "cancelled", "expired"}

\* msgs.data[0].content[0].text.value of the finished run; <<>>: no message
AssistantAnswers == {<<>>, <<WS, "breathe">>}

\* moonshot.chat.completions.create(...): the call is recorded
Create(a, msgs, tools, tool_choice) ==
    [a EXCEPT !.calls = Append(@, [messages |-> msgs, tools |-> tools,
                                   tool_choice |-> tool_choice])]

\* json.dumps(module_result)
json_dumps(result) == [json |-> result]

\* the second call replays the turn, the function calls and the tool result
follow_msgs(a, result) ==
    <<[role |-> "user", content |-> a.user_msg],
      [role |-> "assistant", tool_calls |-> a.tcalls],
      [role |-> "tool", tool_call_id |-> a.tcalls[1].id,
       name |-> a.tcalls[1].name, content |-> json_dumps(result)]>>

\* mutant: the second call offers the tools again
Follow_with_tools(a, result) ==
    [Create(a, follow_msgs(a, result), TRUE, "auto") EXCEPT !.pc = "second"]

\* chat from the return of handle_module to the second call
Follow(a, result) ==
    [Create(a, follow_msgs(a, result), FALSE, "none") EXCEPT !.pc = "second"]

\* handle_module up to its first wait: a result, or the run that is polled
handle_module(assistant, mod, payload) ==
    IF mod = "psychology"
    THEN IF ~assistant
         THEN [pending |-> FALSE,
               result |-> [module |-> "psychology", result |-> "error",
                           detail |-> NOT_CONFIGURED]]
         ELSE [pending |-> TRUE, result |-> [module |-> "psychology"]]
    ELSE [pending |-> FALSE,
          result |-> [module |-> mod, result |-> "done", payload |-> payload]]

\* POST /chat up to the first call
AdapterChat(message) ==
    /\ adapter.pc \in {"idle", "done", "failed"}
    /\ adapter.turn < MaxAdapterTurns
    /\ LET a == [IdleTurn EXCEPT !.turn = adapter.turn + 1,
                                 !.api_key = adapter.api_key,
                                 !.assistant = adapter.assistant,
                                 !.user_msg = Strip(message)]
       IN adapter' =
            IF ~a.api_key THEN [a EXCEPT !.pc = "done", !.reply = NO_KEY]
            ELSE [Create(a, <<[role |-> "user", content |-> a.user_msg]>>,
                         TRUE, "auto") EXCEPT !.pc = "first"]
    /\ UNCHANGED <<session_state, lists, users, messages, reqs, clients,
                   overlap, served, last, epoch, detection, free>>

\* mutant: a reply without function call is sent through the fallback module
FirstReply_always_module(a, first) ==
    LET tcalls == IF first.tool_calls = <<>>
                  THEN <<ToolCall("c0", [loads |-> TRUE, module |-> "fallback",
                                         payload |-> [text |-> NoText]])>>
                  ELSE first.tool_calls
        arguments == tcalls[1].arguments
        payload == IF arguments.payload.text = NoText
                   THEN [text |-> a.user_msg] ELSE arguments.payload
        a1 == [a EXCEPT !.tcalls = tcalls]
        run == handle_module(a.assistant, arguments.module, payload)
        a2 == [a1 EXCEPT !.handled = Append(@, [mod |-> arguments.module,
                                                payload |-> payload])]
    IN IF ~arguments.loads THEN [a1 EXCEPT !.pc = "failed"]
       ELSE IF run.pending THEN [a2 EXCEPT !.pc = "poll"]
       ELSE Follow(a2, run.result)

\* chat from the first response to the next wait
FirstReply(a, first) ==
    LET tcalls == first.tool_calls
        arguments == tcalls[1].arguments
        payload == IF arguments.payload.text = NoText
                   THEN [text |-> a.user_msg] ELSE arguments.payload
        a1 == [a EXCEPT !.tcalls = tcalls]
        run == handle_module(a.assistant, arguments.module, payload)
        a2 == [a1 EXCEPT !.handled = Append(@, [mod |-> arguments.module,
                                                payload |-> payload])]
    IN IF tcalls = <<>> THEN [a1 EXCEPT !.pc = "done", !.reply = first.content]
       ELSE IF ~arguments.loads THEN [a1 EXCEPT !.pc = "failed"]
       ELSE IF run.pending THEN [a2 EXCEPT !.pc = "poll"]
       ELSE Follow(a2, run.result)

\* the provider answers the first call
FirstResponse(first) ==
    /\ adapter.pc = "first"
    /\ adapter' = FirstReply([adapter EXCEPT !.first = first], first)
    /\ UNCHANGED <<session_state, lists, users, messages, reqs, clients,
                   overlap, served, last, epoch, detection, free>>

\* handle_module: one round of the loop that polls the assistant run
Poll(outcome, answer) ==
    /\ adapter.pc = "poll"
    /\ adapter.run \in TERMINAL => outcome \in {adapter.run, "raise"}
    /\ outcome \notin {"completed", "raise"} => adapter.polls < MaxPolls
    /\ adapter' =
         CASE outcome = "completed" ->
                Follow([adapter EXCEPT !.run = outcome],
                       [module |-> "psychology", result |-> "ok",
                        advice |-> Strip(answer)])
           [] outcome = "raise" ->
                Follow([adapter EXCEPT !.run = outcome],
                       [module |-> "psychology", result |-> "error",
                        detail |-> <<"raised">>])
           [] OTHER -> [adapter EXCEPT !.polls = @ + 1, !.run = outcome]
    /\ UNCHANGED <<session_state, lists, users, messages, reqs, clients,
                   overlap, served, last, epoch, detection, free>>

\* the provider answers the second call and chat returns
SecondResponse(content) ==
    /\ adapter.pc = "second"
    /\ adapter' = [adapter EXCEPT !.pc = "done", !.reply = content]
    /\ UNCHANGED <<session_state, lists, users, messages, reqs, clients,
                   overlap, served, last, epoch, detection, free>>

InitAdapter ==
    /\ session_state = EmptyWorld.ss
    /\ lists = EmptyWorld.lists
    /\ users = EmptyWorld.users
    /\ messages = EmptyWorld.messages
    /\ reqs = [q \in ReqIds |-> IdleReq]
    /\ clients = {}
    /\ overlap = FALSE
    /\ served = 0
    /\ last = [op |-> "start"]
    /\ epoch = NoEpoch
    /\ \E key, configured \in BOOLEAN :
          adapter = [IdleTurn EXCEPT !.api_key = key, !.assistant = configured]
    /\ detection = NoDetection("openai")
    /\ free = NoFreeTurns

NextAdapter ==
    \/ \E message \in AdapterMessages : AdapterChat(message)
    \/ \E first \in FirstResponses : FirstResponse(first)
    \/ \E outcome \in RunOutcomes, answer \in AssistantAnswers :
          Poll(outcome, answer)
    \/ \E content \in SecondResponses : SecondResponse(content)

\* the local heuristic of the adapter: the message needs a module although
\* the provider did not ask for one (a keyword of the psychology module)
intervention_needed(user_msg) == Search(PSYCH_KEYWORDS, user_msg)

SpecAdapter == InitAdapter /\ [][NextAdapter]_vars

----------------------------------------------------------------------------
(* Properties *)

MODULES == {"general", "psychology", "registration", "login"}
STICKY == {"psychology", "registration", "login"}

Sessions == DOMAIN session_state
HistoryOf(sid) == lists[session_state[sid].history]

\* request r is accepted in this step
Arrives(r) == reqs[r].pc = "idle" /\ reqs'[r].pc # "idle"

\* C1: after every completed /chat turn and /login call, every session's
\* history holds at most 40 messages.
C1_HistoryCapped ==
    Idle => \A sid \in Sessions : Len(HistoryOf(sid)) <= 40

\* the request arrives at an unregistered session whose history holds two
\* user messages, without forced module and without login keyword
ThirdMessage(r) ==
    /\ Arrives(r)
    /\ reqs'[r].sid \in Sessions
    /\ ~session_state[reqs'[r].sid].registered
    /\ Cardinality(UserMessages(HistoryOf(reqs'[r].sid))) >= 2
    /\ reqs'[r].forced = NoForced
    /\ ~Search(LOGIN_KEYWORDS, reqs'[r].text)

\* the request is in the registration handler and the session in Registration
InRegistration(r) ==
    /\ reqs'[r].pc = "upstream"
    /\ reqs'[r].module = "registration"
    /\ HandlerOf(reqs'[r].module) = "registration"
    /\ session_state'[reqs'[r].sid].current_module = "registration"

\* C2 (as stated): the 3rd user message of every unregistered session is
\* handled by the registration handler with current_module = Registration,
\* unless a module is forced or the text matches the login keyword.
C2_ThirdMessageRegisters ==
    [][\A r \in ReqIds : ThirdMessage(r) => InRegistration(r)]_vars

\* C2 (amended): the same, for a session whose current module is General
\* when the message arrives.
C2_ThirdMessageRegistersFromGeneral ==
    [][\A r \in ReqIds :
          ThirdMessage(r)
          /\ session_state[reqs'[r].sid].current_module = "general"
          => InRegistration(r)]_vars

\* an unregistered session's third message, without registration keyword,
\* has just been given to the registration handler
C2_Witness ==
    /\ last.op = "dispatch"
    /\ last.module = "registration"
    /\ last.seen = "general"
    /\ last.text = <<"hi">>
    /\ ~session_state[last.sid].registered
    /\ Cardinality(UserMessages(HistoryOf(last.sid))) = 2

\* C3: a reply that carries the handoff marker (or the remote handoff flag)
\* is returned without the marker and leaves the session in General,
\* whichever handler produced it.
C3_HandoffStripped ==
    (last.op = "reply" /\ (last.flag \/ Contains(last.response, HANDOFF)))
    => /\ ~Contains(last.text, HANDOFF)
       /\ session_state[last.sid].current_module = "general"

\* C4: current_module is always one of the four modules.
C4_ModuleInEnum ==
    \A sid \in Sessions : session_state[sid].current_module \in MODULES

\* C5: a session that is marked registered has its user set.
C5_RegisteredHasUser ==
    \A sid \in Sessions :
        session_state[sid].registered => session_state[sid].user # NoUser

\* a session has been registered by the in-chat sign-up flow
C5_Witness ==
    /\ last.op = "reply"
    /\ last.handler = "registration"
    /\ session_state[last.sid].registered
    /\ session_state[last.sid].user = "u2"

C7_LoginKeywordAlways ==
    (last.op \in {"dispatch", "classify"} /\ last.forced = NoForced
        /\ Search(LOGIN_KEYWORDS, last.text))
    => /\ last.op = "dispatch"
       /\ last.module = "login"
       /\ session_state[last.sid].current_module = "login"

\* C7 (amended): a text with the login keyword, without forced module, sent
\* to a session whose current module is General moves the session to Login,
\* whatever the number of prior user messages.
C7_LoginKeywordFromGeneral ==
    (last.op \in {"dispatch", "classify"} /\ last.forced = NoForced
        /\ Search(LOGIN_KEYWORDS, last.text) /\ last.seen = "general")
    => /\ last.op = "dispatch"
       /\ last.module = "login"
       /\ last.handler = "login"
       /\ session_state[last.sid].current_module = "login"

\* the login keyword came as the third message of an unregistered session
C7_Witness ==
    /\ last.op = "dispatch"
    /\ last.module = "login"
    /\ last.seen = "general"
    /\ ~session_state[last.sid].registered
    /\ Cardinality(UserMessages(HistoryOf(last.sid))) >= 2

\* the handler's reply carried the completion signal of its module
Signal(ev) ==
    /\ ev.op = "reply"
    /\ CASE ev.handler = "psychology" ->
                ev.flag \/ Contains(ev.response, HANDOFF)
         [] ev.handler = "registration" ->
                Contains(ev.response, REGISTRATION_COMPLETE)
         [] OTHER -> FALSE

\* C8: with requests handled one at a time, a session in Psychology,
\* Registration or Login handles an unforced message in that same module
\* without evaluating any rule, and leaves the module only on the completion
\* signal of its handler or on a forced module.
C8_Sticky ==
    [][\A sid \in Sessions :
          session_state[sid].current_module \in STICKY =>
            /\ \A r \in ReqIds :
                 (Arrives(r) /\ reqs'[r].sid = sid /\ reqs'[r].forced = NoForced)
                 => /\ last'.op = "dispatch"
                    /\ ~last'.detected /\ ~last'.classified
                    /\ last'.module = session_state[sid].current_module
                    /\ last'.handler = session_state[sid].current_module
            /\ session_state'[sid].current_module
                  # session_state[sid].current_module
               => \/ /\ last'.op = "dispatch" /\ last'.sid = sid
                     /\ last'.forced # NoForced
                  \/ last'.sid = sid /\ Signal(last')]_vars

\* a message with the login keyword was handled by the psychology module
\* the session was in
C8_Witness ==
    /\ last.op = "reply"
    /\ last.seen = "psychology"
    /\ last.handler = "psychology"
    /\ last.forced = NoForced
    /\ Search(LOGIN_KEYWORDS, last.user_text)

\* what a session has become: its module and the content of its history
Outcome(w, sid) ==
    [current_module |-> w.ss[sid].current_module, history |-> History(w, sid)]

\* the outcomes of the turn first and then the turn second, each run alone
OneAfterTheOther(w, first, second) ==
    {Outcome(w2, second.sid) :
        w2 \in UNION {chat(w1, second.sid, second) :
                         w1 \in chat(w, first.sid, first)}}

\* C9: when two /chat requests of one session that overlapped have both
\* returned, the session's current_module and history are those that running
\* the two requests one after the other, in one of the two orders, can give.
C9_Atomic ==
    (Idle /\ ~epoch.void /\ Len(epoch.turns) = 2
        /\ epoch.turns[1].sid = epoch.turns[2].sid)
    => Outcome(World, epoch.turns[1].sid)
          \in OneAfterTheOther(epoch.w, epoch.turns[1], epoch.turns[2])
               \cup OneAfterTheOther(epoch.w, epoch.turns[2], epoch.turns[1])

RECURSIVE PairsOf(_, _)
\* the (role, content) pairs stored for username, oldest first
PairsOf(rows, username) ==
    IF rows = <<>> THEN <<>>
    ELSE IF rows[Len(rows)][1] = username
         THEN Append(PairsOf(SubSeq(rows, 1, Len(rows) - 1), username),
                     [role |-> rows[Len(rows)][2],
                      content |-> rows[Len(rows)][3]])
         ELSE PairsOf(SubSeq(rows, 1, Len(rows) - 1), username)

\* C10: after a successful /login the session's history is exactly the
\* sequence of (role, content) pairs persisted for the user, in order.
C10_LoginRestoresLog ==
    (last.op = "login" /\ last.ok)
    => HistoryOf(last.sid) = PairsOf(messages, last.username)

\* a log longer than the cap has replaced a shorter history
C10_Witness ==
    /\ last.op = "login" /\ last.ok
    /\ Len(HistoryOf(last.sid)) = 41
    /\ served > 1

\* the turn of the adapter has returned a reply built from provider calls
Returned == adapter.pc = "done" /\ adapter.calls # <<>>

\* C11: in the tool-call adapter either signal alone routes the message: a
\* turn whose first response carries a function call, or whose message the
\* local heuristic picks, runs the module handler on a module and a payload
\* and ends with the second call.
C11_EitherSignalRoutes ==
    (Returned /\ (adapter.first.tool_calls # <<>>
                  \/ intervention_needed(adapter.user_msg)))
    => /\ Len(adapter.handled) = 1
       /\ adapter.handled[1].payload.text # NoText
       /\ Len(adapter.calls) = 2

\* C12: a turn of the adapter makes at most two provider calls: the first
\* with the tools, and a second one only after a function call whose module
\* handler has returned; the second replays the user turn, the function
\* calls and the tool result and says tool_choice "none".
C12_AtMostTwoCalls ==
    /\ Len(adapter.calls) <= 2
    /\ adapter.calls # <<>> =>
          /\ adapter.calls[1].tools
          /\ adapter.calls[1].messages =
                <<[role |-> "user", content |-> adapter.user_msg]>>
    /\ Len(adapter.calls) = 2 =>
          /\ adapter.first.tool_calls # <<>>
          /\ Len(adapter.handled) = 1
          /\ adapter.pc \in {"second", "done"}
          /\ ~adapter.calls[2].tools
          /\ adapter.calls[2].tool_choice = "none"
          /\ Len(adapter.calls[2].messages) = 3
          /\ adapter.calls[2].messages[1] = adapter.calls[1].messages[1]
          /\ adapter.calls[2].messages[2].tool_calls = adapter.first.tool_calls
          /\ adapter.calls[2].messages[3].role = "tool"
          /\ adapter.calls[2].messages[3].tool_call_id
                = adapter.first.tool_calls[1].id
          /\ adapter.calls[2].messages[3].content.json.module
                = adapter.handled[1].mod
    /\ (adapter.pc = "poll" \/ adapter.handled = <<>>) => Len(adapter.calls) <= 1

\* the reply of a turn whose module was the polled assistant
C12_Witness ==
    /\ adapter.pc = "done"
    /\ Len(adapter.calls) = 2
    /\ adapter.polls > 0
    /\ adapter.reply = <<"final">>

\* C13: when the first response carries no function call, its text is the
\* reply, no module handler runs and no second provider call is made.
C13_PlainReply ==
    (Returned /\ adapter.first.tool_calls = <<>>)
    => /\ adapter.reply = adapter.first.content
       /\ adapter.handled = <<>>
       /\ Len(adapter.calls) = 1

\* the provider answered a greeting in plain text
C13_Witness ==
    /\ Returned
    /\ adapter.first.tool_calls = <<>>
    /\ adapter.user_msg = <<"hi">>
    /\ adapter.reply = <<"hello">>

\* detect_module has returned
Detected == detection.pc = "done"

\* C14: a call of the chat-completion service that meets a rate-limit signal
\* is made again (until it succeeds or the wait is used up), and a call that
\* fails in any other way is made once.
C14_RateLimitRetried ==
    (Detected /\ detection.attempts >= 1 /\ detection.outcome.raised)
    => IF detection.outcome.kind = "rate_limit"
       THEN detection.attempts >= 2
       ELSE detection.attempts = 1

\* C15: when the call of the classifier fails, whatever the text of the
\* failure, the probability is 0.0 and detect_module returns General.
C15_FailsClosed ==
    (Detected /\ detection.outcome.raised)
    => /\ detection.probability = 0
       /\ detection.result = "general"

\* C17: on a fresh session the text "მაქვს პანიკის შეტევა" is given to
\* Psychology by the keyword stage, without a call to the classifier.
C17_PanicByKeyword ==
    (detection.pc # "idle" /\ detection.user_text = PANIC_TEXT
        /\ ~detection.registered /\ detection.history = <<>>)
    => /\ Detected
       /\ detection.result = "psychology"
       /\ ~detection.asked
       /\ detection.attempts = 0

C16_EmptyTextRejected ==
    [][(served' = served + 1 /\ last'.op # "login" /\ last'.text = <<>>)
       => /\ last'.op = "rejected"
          /\ last'.status = 400
          /\ DOMAIN session_state' = DOMAIN session_state
          /\ UNCHANGED <<session_state, lists, users, messages, reqs>>]_vars

\* the first request of a client had no text: there is still no session
C16_Witness ==
    /\ last.op = "rejected"
    /\ last.sid \notin Sessions
    /\ served = 1

\* the history of the session of the last event with that event's turn
\* appended to it
Extended ==
    HistoryOf(last'.sid)
    \o <<Msg("user", last'.user_text), Msg("assistant", last'.response)>>

\* C19: when the user message and the reply of a turn make the history
\* longer than 40, the history kept is the last 40 messages of the extended
\* sequence, in their order.
C19_KeepsLastForty ==
    [][(last'.op = "reply" /\ last'.via = "local" /\ Len(Extended) > 40)
       => lists'[session_state'[last'.sid].history] = LastN(Extended, 40)]_vars

\* the credentials object of a reply that completes the flow of the handler
Credentials(handler, response) ==
    IF handler = "registration" THEN SearchJsonGreedy(response)
    ELSE SearchJsonLazy(response)

\* the reply completes the sign-up or login flow of the handler successfully
FlowSucceeds(handler, response) ==
    LET m == Credentials(handler, response)
        complete == m.found /\ m.loads /\ JsonUsername(m.obj) # ""
                    /\ JsonPassword(m.obj) # ""
        pw_hash == get_user_hash(users, JsonUsername(m.obj))
    IN CASE handler = "registration" ->
                Contains(response, REGISTRATION_COMPLETE) /\ complete
         [] handler = "login" ->
                /\ Contains(response, LOGIN_COMPLETE) /\ complete
                /\ pw_hash # NoHash /\ checkpw(JsonPassword(m.obj), pw_hash)
         [] OTHER -> FALSE

\* the record the storage holds for the identity of the reply
LoadedFor(handler, response) ==
    load_history(messages, JsonUsername(Credentials(handler, response).obj))

\* C20: when an in-chat sign-up or login succeeds and the storage holds a
\* non-empty history for the identity, the session's history at the end of
\* the turn is the loaded record, whatever the session held before.
C20_LoadedHistoryReplaces ==
    [][(last'.op = "reply" /\ last'.via = "local"
          /\ FlowSucceeds(last'.handler, last'.response)
          /\ LoadedFor(last'.handler, last'.response) # <<>>)
       => lists'[session_state'[last'.sid].history]
             = ToMessages(LoadedFor(last'.handler, last'.response))]_vars

\* the marker with which the handler of a module signals completion
MarkerOf(handler) ==
    CASE handler = "psychology" -> HANDOFF
      [] handler = "registration" -> REGISTRATION_COMPLETE
      [] handler = "login" -> LOGIN_COMPLETE

\* C21: after a turn of Psychology, Registration or Login whose handler
\* reply carries the completion marker of the module, the returned text is
\* without the marker and the session is in General.
C21_CompletionReturnsToGeneral ==
    (last.op = "reply" /\ last.handler \in STICKY
        /\ Contains(last.response, MarkerOf(last.handler)))
    => /\ ~Contains(last.text, MarkerOf(last.handler))
       /\ session_state[last.sid].current_module = "general"

HistoryAfter == lists'[session_state'[last'.sid].history]

\* C23: a turn that returns a reply leaves the history of its session
\* ending with the user message of the turn followed by the assistant reply
\* of the turn, whichever handler and path produced the reply.
C23_TurnAppended ==
    [][last'.op = "reply"
       => /\ Len(HistoryAfter) >= 2
          /\ HistoryAfter[Len(HistoryAfter) - 1]
                = Msg("user", last'.user_text)
          /\ HistoryAfter[Len(HistoryAfter)].role = "assistant"
          /\ HistoryAfter[Len(HistoryAfter)].content
                \in {last'.response, last'.text}]_vars

\* C24: when the module handler of a turn of the adapter fails (the
\* assistant is not configured, a call of the assistant service raised, or
\* the run ended without completing), it returns a result with
\* result = "error", which is the tool message of the second provider call.
C24_FailureIsErrorResult ==
    (/\ adapter.handled # <<>>
     /\ adapter.handled[1].mod = "psychology"
     /\ ~adapter.assistant \/ adapter.run \in TERMINAL \cup {"raise"})
    => /\ adapter.pc \in {"second", "done"}
       /\ Len(adapter.calls) = 2
       /\ adapter.calls[2].messages[3].content.json.result = "error"

\* C25: the wait for the assistant run ends when the run has ended: once a
\* poll has met a status in which the run ends without completing,
\* handle_module no longer waits.
C25_WaitEnds ==
    adapter.pc = "poll" => adapter.run \notin TERMINAL

\* the step leaves every session other than that of its request as it was
OthersUntouched ==
    \A sid \in Sessions \ {last'.sid} :
        /\ sid \in DOMAIN session_state'
        /\ session_state'[sid].current_module
              = session_state[sid].current_module
        /\ session_state'[sid].registered = session_state[sid].registered
        /\ session_state'[sid].user = session_state[sid].user
        /\ lists'[session_state'[sid].history] = HistoryOf(sid)

\* C26 (as stated): a request of one session changes no other session,
\* and the history of a session comes to hold no message written in
\* another one: the history a session has after its first request holds
\* only messages of the log found at start-up.
C26_NoCrossSession ==
    [][/\ OthersUntouched
       /\ (last'.sid \notin Sessions /\ last'.sid \in DOMAIN session_state')
          => \A i \in DOMAIN HistoryAfter :
                /\ HistoryAfter[i].content # <<>>
                /\ HistoryAfter[i].content[1] = "m"]_vars

\* C26 (amended): a request of one session changes no other session, and
\* what it brings into the history of its own session is a message of the
\* turn or a row of the persisted log of the user the session is bound to.
C26_SharedOnlyThroughUserLog ==
    [][/\ OthersUntouched
       /\ last'.sid \in DOMAIN session_state'
          => \A i \in DOMAIN HistoryAfter :
                LET msg == HistoryAfter[i]
                    before == IF last'.sid \in Sessions
                              THEN HistoryOf(last'.sid) ELSE <<>>
                    log == ToMessages(load_history(messages',
                                         session_state'[last'.sid].user))
                IN \/ \E k \in DOMAIN before : before[k] = msg
                   \/ last'.op = "reply"
                       /\ \/ msg = Msg("user", last'.user_text)
                          \/ msg.role = "assistant"
                   \/ /\ session_state'[last'.sid].user # NoUser
                      /\ \E k \in DOMAIN log : log[k] = msg]_vars

\* the second session has logged in as the user of the first one, which
\* has chatted
C26_Witness ==
    /\ last.op = "login"
    /\ last.ok
    /\ last.sid = "s2"
    /\ "s1" \in Sessions
    /\ session_state["s1"].user = last.username
    /\ \E i \in DOMAIN HistoryOf("s1") :
          HistoryOf("s1")[i] = Msg("user", <<"hi">>)

\* C27: when no request names a module, the general handler answers at
\* most 2 messages of a session while the session is not registered, also
\* when the requests of the session overlap.
C27_FreeTurnsBounded ==
    \A sid \in SessionIds : free[sid] <= REG_THRESHOLD

\* C28: a step binds a session to an existing user, and loads the user's
\* history into it, only when its request presented a password matching
\* the hash stored for the user before; and no step replaces the stored
\* hash of an existing user.
C28_BindingNeedsPassword ==
    [][\A u \in Usernames :
          LET bound == {sid \in DOMAIN session_state' :
                          /\ session_state'[sid].user = u
                          /\ sid \notin Sessions \/ session_state[sid].user # u}
              m == Credentials(last'.handler, last'.response)
              presented ==
                 CASE last'.op = "login" ->
                         /\ last'.username = u
                         /\ checkpw(last'.password, users[u])
                   [] last'.op = "reply"
                      /\ last'.handler \in {"login", "registration"} ->
                         /\ m.found /\ m.loads
                         /\ JsonUsername(m.obj) = u
                         /\ checkpw(JsonPassword(m.obj), users[u])
                   [] OTHER -> FALSE
          IN users[u] # NoHash =>
                /\ bound # {} => presented
                /\ users'[u] = users[u]]_vars

\* C29: a login that succeeds, through /login or through the login flow of
\* the chat, leaves the persisted message log as it was.
C29_LoginKeepsLog ==
    [][(\/ last'.op = "login" /\ last'.ok
        \/ /\ last'.op = "reply"
           /\ last'.handler = "login"
           /\ FlowSucceeds("login", last'.response))
       => messages' = messages]_vars

====
